---- MODULE Spec2Model ----
(***************************************************************************)
(* AlphaFoldBridge (src/python/alphafold_bridge.py): a client that submits *)
(* a structure-prediction job, polls its status under a fixed attempt      *)
(* budget, fetches the result artifacts and returns one result record.     *)
(* The transport (requests.post / requests.get) and the service behind it  *)
(* are the environment: every transport call may raise, or return any of   *)
(* the enumerated status codes and bodies.                                 *)
(***************************************************************************)
EXTENDS Integers, Sequences, FiniteSets, TLC

(* ---------------- bounds of the model ---------------- *)
MaxChains == 2       \* longest sequences / stoichiometry list of a multimer config
MaxCopies == 2       \* largest copy number in a stoichiometry list
MaxNon200 == 1       \* non-200 status responses the service gives in one call
MaxFetchFail == 1    \* failed artifact retrievals in one call
MaxSlow == 1         \* transport calls of one poll that take the full request timeout

(* ---------------- program constants ---------------- *)
max_polls == 60
poll_interval == 10
request_timeout == 30
ACCEPTED == 202
OK == 200
DEFAULT_NUM_MODELS == 5
MULTIMER_NUM_PREDICTIONS == 5

(* ---------------- values ---------------- *)
None == "<None>"                      \* Python None
EmptyDict == [k \in {} |-> 0]         \* Python {}
NoValue == [none |-> TRUE]            \* a variable that holds nothing yet
NoStatus == "<no status read>"        \* no status string was read in this attempt

Residues == {"A", "B"}
\* the constructions looked at: <<api_key argument, ALPHAFOLD_API_KEY in the
\* environment, whether colabfold can be imported>>
Bridges == { <<None, None, FALSE>>,
             <<None, "", TRUE>>,
             <<"", "envkey", TRUE>>,
             <<"argkey", "envkey", FALSE>> }
JobIds == {"job-1"}
SubmitCodes == {200, 202, 400, 500}
NonTerminalStatuses == {"pending", "running", "queued", "", None}
PdbTexts == {"ATOM"}

\* truth value of a Python string-or-None
Truthy(v) == v \notin {None, ""}

\* a or b
PyOr(a, b) == IF Truthy(a) THEN a ELSE b

\* dict.get(key, default)
Get(d, key, default) == IF key \in DOMAIN d THEN d[key] ELSE default

\* lists of length 0..n over S
ListsUpTo(S, n) == UNION {[1..k -> S] : k \in 0..n}

\* a dict that has the key k with one of vals, or lacks it
Opt(k, vals) == {EmptyDict} \cup {k :> v : v \in vals}

\* exceptions are modelled by their type and message; str(e) is the message
Exc(type, msg) == [type |-> type, msg |-> msg]
Str(e) == e.msg

KeyError(k) == Exc("KeyError", k)
IndexError == Exc("IndexError", "list index out of range")
TransportErrors == {Exc("ConnectionError", "connection refused"),
                    Exc("Timeout", "read timed out")}
JSONDecodeError == Exc("JSONDecodeError", "Expecting value")
AttributeError == Exc("AttributeError", "object has no attribute 'get'")
MissingSchema == Exc("MissingSchema", "Invalid URL 'None'")

(* ---------------- inputs of the public operations ---------------- *)
StructureConfigs ==
  { s @@ m @@ n @@ t :
      s \in Opt("sequence", {"MKT"}),
      m \in Opt("mode", {"api", "local", "batch"}),
      n \in Opt("num_models", {1, 5}),
      t \in Opt("use_templates", {TRUE}) }

MultimerConfigs ==
  { s @@ t :
      s \in Opt("sequences", ListsUpTo(Residues, MaxChains)),
      t \in Opt("stoichiometry", ListsUpTo(0..MaxCopies, MaxChains)) }

\* the multimer configs the protocol is run with: no sequences key, the A2B
\* complex, no stoichiometry, a stoichiometry list that is too short, no chains
MultimerSamples ==
  { EmptyDict,
    [sequences |-> <<"A", "B">>, stoichiometry |-> <<2, 1>>],
    [sequences |-> <<"A", "B">>],
    [sequences |-> <<"A", "B">>, stoichiometry |-> <<2>>],
    [sequences |-> << >>] }

(* ---------------- pure helpers of the code ---------------- *)
\* headers = {'Authorization': f'Bearer {self.api_key}', 'Content-Type': ...}
Headers(key) == [Authorization |-> <<"Bearer ", key>>,
                 ContentType |-> "application/json"]

\* payload of _predict_via_api
StructurePayload(sequence, num_models, use_templates) ==
  [sequences |-> << [sequence |-> sequence] >>,
   modelPreset |-> IF num_models = 1 THEN "monomer" ELSE "multimer",
   numPredictions |-> num_models,
   useTemplates |-> use_templates]

\* Repeat with the inner loop left out: one entry per sequence
Repeat_Once(seq, n) == << [sequence |-> seq] >>

\* for _ in range(n): chains.append({'sequence': seq})
Repeat(seq, n) == [k \in 1..n |-> [sequence |-> seq]]

\* [1] * n
Ones(n) == [k \in 1..n |-> 1]

\* the nested loop of predict_multimer, from index i on; stoichiometry[i]
\* raises IndexError when the list is too short
RECURSIVE ChainsFrom(_, _, _, _)
ChainsFrom(sequences, stoichiometry, i, chains) ==
  IF i > Len(sequences) THEN [ok |-> TRUE, chains |-> chains]
  ELSE IF i > Len(stoichiometry) THEN [ok |-> FALSE, exc |-> IndexError]
  ELSE ChainsFrom(sequences, stoichiometry, i + 1,
                  chains \o Repeat(sequences[i], stoichiometry[i]))

BuildChains(sequences, stoichiometry) ==
  ChainsFrom(sequences, stoichiometry, 1, << >>)

MultimerPayload(chains) ==
  [sequences |-> chains,
   modelPreset |-> "multimer",
   numPredictions |-> MULTIMER_NUM_PREDICTIONS]

(* ---------------- result records ---------------- *)
\* a message is the sequence of the parts its f-string is made of
UnknownModeResult(mode) ==
  [error |-> <<"Unknown prediction mode: ", mode>>, status |-> "failed"]

ApiKeyMissingResult ==
  [error |-> <<"AlphaFold API key not set. Set ALPHAFOLD_API_KEY environment variable.">>,
   status |-> "failed",
   message |-> <<"API mode requires authentication">>]

MultimerKeyMissingResult ==
  [error |-> <<"Multimer prediction requires API access">>, status |-> "failed"]

ApiRejectedResult(code, text) ==
  [error |-> <<"API request failed: ", code>>, status |-> "failed",
   message |-> <<text>>]

MultimerRejectedResult(code) ==
  [error |-> <<"Multimer API request failed: ", code>>, status |-> "failed"]

ApiExceptionResult(e) ==
  [error |-> <<Str(e)>>, status |-> "failed",
   message |-> <<"AlphaFold API prediction failed: ", Str(e)>>]

MultimerExceptionResult(e) ==
  [error |-> <<Str(e)>>, status |-> "failed",
   message |-> <<"Multimer prediction failed: ", Str(e)>>]

ColabfoldMissingResult ==
  [error |-> <<"ColabFold not installed">>, status |-> "failed",
   message |-> <<"Install ColabFold: pip install colabfold">>]

ColabfoldStubResult ==
  [error |-> <<"Local ColabFold prediction not yet implemented">>, status |-> "failed",
   message |-> <<"Use API mode for now: mode=\"api\"">>]

\* SuccessResult reading the mean under a key the service does not send
SuccessResult_WrongKey(jid, pdb, conf) ==
  [status |-> "success",
   job_id |-> jid,
   pdb_data |-> pdb,
   confidence_scores |-> Get(conf, "plddt", << >>),
   mean_plddt |-> Get(conf, "mean_plddt", 0),
   pae_data |-> Get(conf, "pae", None)]

SuccessResult(jid, pdb, conf) ==
  [status |-> "success",
   job_id |-> jid,
   pdb_data |-> pdb,
   confidence_scores |-> Get(conf, "plddt", << >>),
   mean_plddt |-> Get(conf, "meanPlddt", 0),
   pae_data |-> Get(conf, "pae", None)]

JobFailedResult(jid) ==
  [error |-> <<"Prediction job failed">>, status |-> "failed", job_id |-> jid]

TimeoutResult(jid) ==
  [error |-> <<"Job timeout after 10 minutes">>, status |-> "failed", job_id |-> jid]

(* ---------------- state ---------------- *)
VARIABLES
  api_key, api_base_url, colabfold_available,   \* the bridge's fields
  pc,          \* "idle", "submit", "poll", "fetch_pdb", "fetch_conf", "sleep", "done"
  op,          \* the public operation last called
  config,      \* its argument, while the operation's own frame runs
  headers,     \* request headers built by the operation
  payload,     \* submission payload built by the operation
  job_id,      \* job id taken from the submission response
  attempt,     \* loop index of _poll_job_status
  job_data,    \* the completion payload of the current attempt
  pdb_data,    \* structure text fetched in the current attempt
  confidence_data,   \* confidence object fetched in the current attempt
  result,      \* the value the operation returned
  raised,      \* the exception that escaped the operation
  lastReq,     \* the last request handed to the transport
  submitResp,  \* what the transport answered to the submission
  nSubmit, nStatus, nFetch, nSleep,   \* calls made by the current operation
  hist,        \* kinds of status-query outcomes seen in the current operation:
               \* "nonterminal", "completed", "failed", "non200", and "error"
               \* (the query raised, or its body was not a JSON object)
  nNon200, nFetchFail,                \* environment events in the current operation
  lastStatus,  \* the status string read from the answer of the current attempt
  elapsed,     \* time units since _poll_job_status was entered
  nSlow,       \* transport calls of the current poll that took the full timeout
  timed        \* whether the transport takes time to answer (fixed at the start)

bridge == <<api_key, api_base_url, colabfold_available>>
frame == <<op, config, headers, payload, job_id, attempt, job_data, pdb_data,
           confidence_data>>
outcome == <<result, raised>>
net == <<lastReq, submitResp, nSubmit, nStatus, nFetch, nSleep>>
env == <<hist, nNon200, nFetchFail>>
clock == <<elapsed, nSlow, timed>>
vars == <<bridge, pc, frame, outcome, net, env, lastStatus, clock>>

(* ---------------- __init__ ---------------- *)
\* no operation was called yet
NothingCalled ==
  /\ pc = "idle"
  /\ op = "none"
  /\ config = NoValue
  /\ headers = NoValue
  /\ payload = NoValue
  /\ job_id = None
  /\ attempt = 0
  /\ job_data = NoValue
  /\ pdb_data = NoValue
  /\ confidence_data = NoValue
  /\ result = NoValue
  /\ raised = NoValue
  /\ lastReq = NoValue
  /\ submitResp = NoValue
  /\ nSubmit = 0 /\ nStatus = 0 /\ nFetch = 0 /\ nSleep = 0
  /\ hist = {}
  /\ nNon200 = 0 /\ nFetchFail = 0
  /\ lastStatus = NoStatus
  /\ elapsed = 0 /\ nSlow = 0

Init ==
  /\ \E b \in Bridges :
        /\ api_key = PyOr(b[1], b[2])
        /\ colabfold_available = b[3]    \* _check_dependencies: import colabfold
  /\ api_base_url = "https://api.alphafoldserver.com/v1"
  /\ NothingCalled
  /\ timed = FALSE

\* a bridge built with an api_key argument, without the local tool
InitWithKey ==
  /\ api_key = PyOr("argkey", None)
  /\ api_base_url = "https://api.alphafoldserver.com/v1"
  /\ colabfold_available = FALSE
  /\ NothingCalled

\* ... on a transport that takes time to answer
InitTimed == InitWithKey /\ timed = TRUE

\* ... on a transport that answers at once
InitQuick == InitWithKey /\ timed = FALSE

(* ---------------- the environment's answers ---------------- *)
\* a response body: text that is not JSON, JSON that is not an object, or an object
NotJson(raw) == [kind |-> "text", raw |-> raw]
JsonList == [kind |-> "list"]
JsonDict(d) == [kind |-> "dict", value |-> d]

\* response.text: the body as it was received
Text(body) == body

\* response.json(), then the first .get() on the value
ParseDict(body) ==
  IF body.kind = "text" THEN [ok |-> FALSE, exc |-> JSONDecodeError]
  ELSE IF body.kind = "list" THEN [ok |-> FALSE, exc |-> AttributeError]
  ELSE [ok |-> TRUE, value |-> body.value]

SubmitBodies ==
  {NotJson(""), NotJson("bad request"), JsonList, JsonDict(EmptyDict)}
    \cup {JsonDict([jobId |-> j]) : j \in JobIds}

StatusCodes == {200, 404, 503}

CompletedDicts ==
  { [status |-> "completed"] @@ p @@ c :
      p \in Opt("pdbUrl", {"https://files/pdb"}),
      c \in Opt("confidenceUrl", {"https://files/confidence"}) }

StatusDicts ==
  {EmptyDict} \cup {[status |-> s] : s \in (NonTerminalStatuses \ {None}) \cup {"failed"}}
    \cup CompletedDicts

StatusBodies == {NotJson("<html>"), JsonList} \cup {JsonDict(d) : d \in StatusDicts}

ConfidenceDicts ==
  {EmptyDict, [plddt |-> <<90, 70>>, meanPlddt |-> 80, pae |-> "pae-matrix"]}

ConfidenceBodies == {NotJson(""), JsonList} \cup {JsonDict(d) : d \in ConfidenceDicts}

\* a completion payload that names both artifacts
ValidCompletion(d) == "pdbUrl" \in DOMAIN d /\ "confidenceUrl" \in DOMAIN d

(* ---------------- building blocks of the actions ---------------- *)
Returns(res) == pc' = "done" /\ result' = res /\ raised' = NoValue
Raises(e) == pc' = "done" /\ result' = NoValue /\ raised' = e
Continues(next) == pc' = next /\ result' = NoValue /\ raised' = NoValue

\* a public operation starts: nothing of the previous call remains
Begin(o, cfg) ==
  /\ pc \in {"idle", "done"}
  /\ op' = o
  /\ config' = cfg
  /\ job_id' = None /\ attempt' = 0
  /\ job_data' = NoValue /\ pdb_data' = NoValue /\ confidence_data' = NoValue
  /\ lastReq' = NoValue /\ submitResp' = NoValue
  /\ nSubmit' = 0 /\ nStatus' = 0 /\ nFetch' = 0 /\ nSleep' = 0
  /\ hist' = {} /\ nNon200' = 0 /\ nFetchFail' = 0
  /\ lastStatus' = NoStatus
  /\ elapsed' = 0 /\ nSlow' = 0
  /\ UNCHANGED <<bridge, timed>>

NothingBuilt == headers' = NoValue /\ payload' = NoValue

\* PredictViaApi without its credential check
PredictViaApi_NoCredentialCheck(sequence, job_name, num_models, use_templates) ==
  /\ Continues("submit")
  /\ headers' = Headers(api_key)
  /\ payload' = StructurePayload(sequence, num_models, use_templates)

\* _predict_via_api up to the submission call
PredictViaApi(sequence, job_name, num_models, use_templates) ==
  IF ~Truthy(api_key)
  THEN /\ Returns(ApiKeyMissingResult)
       /\ NothingBuilt
  ELSE /\ Continues("submit")
       /\ headers' = Headers(api_key)
       /\ payload' = StructurePayload(sequence, num_models, use_templates)

\* PredictViaColabfold without the check of the local tool
PredictViaColabfold_NoCheck(sequence, job_name, num_models) ==
  ColabfoldStubResult

\* _predict_via_colabfold
PredictViaColabfold(sequence, job_name, num_models) ==
  IF ~colabfold_available THEN ColabfoldMissingResult ELSE ColabfoldStubResult

(* ---------------- predict_structure ---------------- *)
\* Dispatch whose else branch falls back to the API path
Dispatch_FallsBackToApi(mode, sequence, job_name, num_models, use_templates) ==
  IF mode = "local"
  THEN /\ Returns(PredictViaColabfold(sequence, job_name, num_models))
       /\ NothingBuilt
  ELSE PredictViaApi(sequence, job_name, num_models, use_templates)

\* the if / elif / else on mode
Dispatch(mode, sequence, job_name, num_models, use_templates) ==
  IF mode = "api"
  THEN PredictViaApi(sequence, job_name, num_models, use_templates)
  ELSE IF mode = "local"
  THEN /\ Returns(PredictViaColabfold(sequence, job_name, num_models))
       /\ NothingBuilt
  ELSE /\ Returns(UnknownModeResult(mode))
       /\ NothingBuilt

predict_structure ==
  \E cfg \in StructureConfigs :
    /\ Begin("predict_structure", cfg)
    /\ IF "sequence" \notin DOMAIN cfg
       THEN /\ Raises(KeyError("sequence"))
            /\ NothingBuilt
       ELSE LET sequence == cfg["sequence"]
                job_name == Get(cfg, "job_name", "holoscript_prediction")
                mode == Get(cfg, "mode", "api")
                num_models == Get(cfg, "num_models", DEFAULT_NUM_MODELS)
                use_templates == Get(cfg, "use_templates", FALSE)
            IN  Dispatch(mode, sequence, job_name, num_models, use_templates)

(* ---------------- predict_multimer ---------------- *)
\* the try block of predict_multimer up to the submission call
MultimerTry(sequences, stoichiometry) ==
  LET built == BuildChains(sequences, stoichiometry)
  IN  IF built.ok
      THEN /\ Continues("submit")
           /\ headers' = Headers(api_key)
           /\ payload' = MultimerPayload(built.chains)
      ELSE /\ Returns(MultimerExceptionResult(built.exc))
           /\ NothingBuilt

\* the credential check of predict_multimer and what follows it
MultimerBody(sequences, stoichiometry) ==
  IF ~Truthy(api_key)
  THEN /\ Returns(MultimerKeyMissingResult)
       /\ NothingBuilt
  ELSE MultimerTry(sequences, stoichiometry)

predict_multimer(cfg) ==
  /\ Begin("predict_multimer", cfg)
  /\ IF "sequences" \notin DOMAIN cfg
     THEN /\ Raises(KeyError("sequences"))
          /\ NothingBuilt
     ELSE LET sequences == cfg["sequences"]
              stoichiometry == Get(cfg, "stoichiometry", Ones(Len(sequences)))
              job_name == Get(cfg, "job_name", "multimer_prediction")
          IN  MultimerBody(sequences, stoichiometry)

(* ---------------- the submission call and its handling ---------------- *)
SubmitRequest ==
  [method |-> "POST", url |-> <<api_base_url, "/predict">>,
   json |-> payload, headers |-> headers, timeout |-> request_timeout]

RejectedResult(o, code, text) ==
  IF o = "predict_structure" THEN ApiRejectedResult(code, text)
  ELSE MultimerRejectedResult(code)

ExceptionResult(o, e) ==
  IF o = "predict_structure" THEN ApiExceptionResult(e)
  ELSE MultimerExceptionResult(e)

\* return self._poll_job_status(job_id, headers): only these two values go on
EnterPoll(jid) ==
  /\ Continues("poll")
  /\ job_id' = jid
  /\ attempt' = 0
  /\ config' = NoValue /\ payload' = NoValue

StaysInCaller == UNCHANGED <<job_id, attempt, config, payload>>

\* OnSubmitResponse taking every 2xx code for an accepted job
OnSubmitResponse_Any2xx(code, body) ==
  IF code \in {200, 202}
  THEN LET parsed == ParseDict(body)
       IN  IF parsed.ok
           THEN EnterPoll(Get(parsed.value, "jobId", None))
           ELSE /\ Returns(ExceptionResult(op, parsed.exc))
                /\ StaysInCaller
  ELSE /\ Returns(RejectedResult(op, code, Text(body)))
       /\ StaysInCaller

\* what the operation does with the submission response
OnSubmitResponse(code, body) ==
  IF code = ACCEPTED
  THEN LET parsed == ParseDict(body)
       IN  IF parsed.ok
           THEN EnterPoll(Get(parsed.value, "jobId", None))
           ELSE /\ Returns(ExceptionResult(op, parsed.exc))
                /\ StaysInCaller
  ELSE /\ Returns(RejectedResult(op, code, Text(body)))
       /\ StaysInCaller

\* OnSubmitError posting the job again
OnSubmitError_Retries(e) ==
  /\ Continues("submit")
  /\ StaysInCaller

\* the except branch around the submission: the error becomes the result
OnSubmitError(e) ==
  /\ Returns(ExceptionResult(op, e))
  /\ StaysInCaller

Submit ==
  /\ pc = "submit"
  /\ lastReq' = SubmitRequest
  /\ nSubmit' = nSubmit + 1
  /\ \/ \E e \in TransportErrors :
          /\ submitResp' = [raised |-> e]
          /\ OnSubmitError(e)
     \/ \E code \in SubmitCodes, body \in SubmitBodies :
          /\ submitResp' = [code |-> code, body |-> body]
          /\ OnSubmitResponse(code, body)
  /\ UNCHANGED <<bridge, op, headers, job_data, pdb_data, confidence_data,
                 nStatus, nFetch, nSleep, env, lastStatus, clock>>

(* ---------------- _poll_job_status ---------------- *)
\* StatusRequest sent without the headers
StatusRequest_NoHeaders ==
  [method |-> "GET", url |-> <<api_base_url, "/jobs/", job_id>>,
   headers |-> NoValue, timeout |-> request_timeout]

StatusRequest ==
  [method |-> "GET", url |-> <<api_base_url, "/jobs/", job_id>>,
   headers |-> headers, timeout |-> request_timeout]

\* requests.get(url, timeout=30): the artifact requests pass no headers
ArtifactRequest(url) ==
  [method |-> "GET", url |-> <<url>>, headers |-> NoValue, timeout |-> request_timeout]

\* NextIteration with the loop bound off by one
NextIteration_OffByOne ==
  /\ job_data' = NoValue /\ pdb_data' = NoValue /\ confidence_data' = NoValue
  /\ lastStatus' = NoStatus
  /\ IF attempt + 1 <= max_polls
     THEN /\ attempt' = attempt + 1
          /\ Continues("poll")
     ELSE /\ attempt' = attempt
          /\ Returns(TimeoutResult(job_id))

\* the for loop moves to its next index, or is exhausted and the function
\* returns the timeout result
NextIteration ==
  /\ job_data' = NoValue /\ pdb_data' = NoValue /\ confidence_data' = NoValue
  /\ lastStatus' = NoStatus
  /\ IF attempt + 1 < max_polls
     THEN /\ attempt' = attempt + 1
          /\ Continues("poll")
     ELSE /\ attempt' = attempt
          /\ Returns(TimeoutResult(job_id))

SameIteration == UNCHANGED <<attempt, job_data, pdb_data, confidence_data>>

\* OnPollException returning the error instead of retrying
OnPollException_GivesUp ==
  /\ Returns([error |-> <<"Polling error">>, status |-> "failed", job_id |-> job_id])
  /\ SameIteration

\* the except branch of the loop body: report the error, then time.sleep
OnPollException ==
  /\ Continues("sleep")
  /\ SameIteration

\* OnCompleted returning success before anything was downloaded
OnCompleted_SkipsFetch(d) ==
  /\ Returns(SuccessResult(job_id, None, EmptyDict))
  /\ job_data' = d
  /\ UNCHANGED <<attempt, pdb_data, confidence_data>>

\* OnCompleted going to the confidence download first
OnCompleted_ConfidenceFirst(d) ==
  /\ Continues("fetch_conf")
  /\ job_data' = d
  /\ UNCHANGED <<attempt, pdb_data, confidence_data>>

\* status == 'completed': go on to download the results
OnCompleted(d) ==
  /\ Continues("fetch_pdb")
  /\ job_data' = d
  /\ UNCHANGED <<attempt, pdb_data, confidence_data>>

\* OnFailed treating 'failed' like any other status
OnFailed_KeepsPolling ==
  /\ Continues("sleep")
  /\ SameIteration

\* status == 'failed'
OnFailed ==
  /\ Returns(JobFailedResult(job_id))
  /\ SameIteration

\* any other status: report it, then time.sleep
\* OnOtherStatus waiting for something that never comes
OnOtherStatus_NeverResumes ==
  /\ Continues("blocked")
  /\ SameIteration

\* any other status: report it, then time.sleep
OnOtherStatus ==
  /\ Continues("sleep")
  /\ SameIteration

\* the kind of a status object, as kept in hist
StatusKind(d) ==
  LET status == Get(d, "status", None)
  IN  IF status \in {"completed", "failed"} THEN status ELSE "nonterminal"

\* OnStatusResponse that takes an empty or missing status for an error
OnStatusResponse_StrictStatus(code, body) ==
  IF code = OK
  THEN LET parsed == ParseDict(body)
       IN  IF parsed.ok
           THEN LET status == Get(parsed.value, "status", None)
                IN  /\ hist' = hist \cup {StatusKind(parsed.value)}
                    /\ nNon200' = nNon200
                    /\ IF status = "completed" THEN OnCompleted(parsed.value)
                       ELSE IF status = "failed" \/ ~Truthy(status) THEN OnFailed
                       ELSE OnOtherStatus
           ELSE /\ hist' = hist \cup {"error"}
                /\ nNon200' = nNon200
                /\ OnPollException
  ELSE /\ hist' = hist \cup {"non200"}
       /\ nNon200' = nNon200 + 1
       /\ NextIteration

\* the loop body after a status response arrived
OnStatusResponse(code, body) ==
  IF code = OK
  THEN LET parsed == ParseDict(body)
       IN  IF parsed.ok
           THEN LET status == Get(parsed.value, "status", None)
                IN  /\ hist' = hist \cup {StatusKind(parsed.value)}
                    /\ nNon200' = nNon200
                    /\ IF status = "completed" THEN OnCompleted(parsed.value)
                       ELSE IF status = "failed" THEN OnFailed
                       ELSE OnOtherStatus
           ELSE /\ hist' = hist \cup {"error"}
                /\ nNon200' = nNon200
                /\ OnPollException
  ELSE /\ hist' = hist \cup {"non200"}
       /\ nNon200' = nNon200 + 1
       /\ NextIteration

\* the answers the service can still give: it stops sending non-200 answers, and
\* completion payloads that lack an artifact URL, once the bounds are used up;
\* a non-200 answer, whose body the loop never reads, comes with an error page
StatusAnswerAllowed(code, body) ==
  /\ code # OK => (nNon200 < MaxNon200 /\ body = NotJson("<html>"))
  /\ (code = OK /\ body.kind = "dict" /\ StatusKind(body.value) = "completed"
        /\ ~ValidCompletion(body.value)) => nFetchFail < MaxFetchFail

\* a transport call of the poll answers at once or, on a transport that takes
\* time, when its timeout of request_timeout is about to run out
TakesTime ==
  \/ elapsed' = elapsed /\ nSlow' = nSlow
  \/ /\ timed /\ nSlow < MaxSlow
     /\ elapsed' = elapsed + request_timeout
     /\ nSlow' = nSlow + 1

\* the status query of one attempt
StatusQueryIssued ==
  /\ pc = "poll"
  /\ lastReq' = StatusRequest
  /\ nStatus' = nStatus + 1
  /\ TakesTime
  /\ UNCHANGED <<bridge, op, config, headers, payload, job_id,
                 submitResp, nSubmit, nFetch, nSleep, nFetchFail, timed>>

\* one attempt whose status query raises
StatusQueryRaises ==
  /\ StatusQueryIssued
  /\ hist' = hist \cup {"error"}
  /\ nNon200' = nNon200
  /\ lastStatus' = NoStatus
  /\ OnPollException

\* what one attempt does when its status query is answered with this code and
\* body
StatusQueryEffect(code, body) ==
  /\ StatusQueryIssued
  /\ StatusAnswerAllowed(code, body)
  /\ OnStatusResponse(code, body)

\* status = job_data.get('status'), when the loop body gets that far
StatusRead(code, body) ==
  IF code = OK /\ ParseDict(body).ok
  THEN Get(ParseDict(body).value, "status", None)
  ELSE NoStatus

\* one attempt whose status query is answered with this code and body
StatusQueryAnswered(code, body) ==
  /\ StatusQueryEffect(code, body)
  /\ lastStatus' = StatusRead(code, body)

StatusQuery ==
  \/ \E e \in TransportErrors : StatusQueryRaises
  \/ \E code \in StatusCodes, body \in StatusBodies : StatusQueryAnswered(code, body)

\* a retrieval fails, as long as the bound allows, and the except branch runs
FetchFails ==
  /\ nFetchFail < MaxFetchFail
  /\ nFetchFail' = nFetchFail + 1
  /\ OnPollException

\* pdb_data = requests.get(pdb_url, timeout=30).text
FetchPdb ==
  /\ pc = "fetch_pdb"
  /\ LET pdb_url == Get(job_data, "pdbUrl", None)
     IN  IF pdb_url = None
         THEN \* requests rejects the URL before anything is sent
              /\ FetchFails
              /\ UNCHANGED <<lastReq, nFetch, elapsed, nSlow>>
         ELSE /\ lastReq' = ArtifactRequest(pdb_url)
              /\ nFetch' = nFetch + 1
              /\ TakesTime
              /\ \/ \E e \in TransportErrors : FetchFails
                 \/ \E text \in PdbTexts :
                      /\ pdb_data' = text
                      /\ nFetchFail' = nFetchFail
                      /\ Continues("fetch_conf")
                      /\ UNCHANGED <<attempt, job_data, confidence_data>>
  /\ UNCHANGED <<bridge, op, config, headers, payload, job_id,
                 submitResp, nSubmit, nStatus, nSleep, hist, nNon200,
                 lastStatus, timed>>

\* confidence_data = requests.get(confidence_url, timeout=30).json(), then the
\* success record is built from it and returned
FetchConfidence ==
  /\ pc = "fetch_conf"
  /\ LET confidence_url == Get(job_data, "confidenceUrl", None)
     IN  IF confidence_url = None
         THEN /\ FetchFails
              /\ UNCHANGED <<lastReq, nFetch, elapsed, nSlow>>
         ELSE /\ lastReq' = ArtifactRequest(confidence_url)
              /\ nFetch' = nFetch + 1
              /\ TakesTime
              /\ \/ \E e \in TransportErrors : FetchFails
                 \/ \E body \in ConfidenceBodies :
                      LET parsed == ParseDict(body)
                      IN  IF parsed.ok
                          THEN /\ confidence_data' = parsed.value
                               /\ nFetchFail' = nFetchFail
                               /\ Returns(SuccessResult(job_id, pdb_data, parsed.value))
                               /\ UNCHANGED <<attempt, job_data, pdb_data>>
                          ELSE FetchFails
  /\ UNCHANGED <<bridge, op, config, headers, payload, job_id,
                 submitResp, nSubmit, nStatus, nSleep, hist, nNon200,
                 lastStatus, timed>>

\* time.sleep(poll_interval), then the loop goes on
Sleep ==
  /\ pc = "sleep"
  /\ nSleep' = nSleep + 1
  /\ elapsed' = elapsed + poll_interval
  /\ NextIteration
  /\ UNCHANGED <<bridge, op, config, headers, payload, job_id,
                 lastReq, submitResp, nSubmit, nStatus, nFetch, env, nSlow, timed>>

(* ---------------- get_status ---------------- *)
\* StatusReport testing the key against None only
StatusReport_KeyNotNone(key, colabfold) ==
  [api_available |-> key # None,
   colabfold_available |-> colabfold,
   module |-> "alphafold_bridge",
   version |-> "1.0.0"]

StatusReport(key, colabfold) ==
  [api_available |-> Truthy(key),
   colabfold_available |-> colabfold,
   module |-> "alphafold_bridge",
   version |-> "1.0.0"]

\* get_status reads the fields and returns; it is an operation of its own, so
\* the counters of calls restart with it
get_status ==
  /\ Begin("get_status", NoValue)
  /\ NothingBuilt
  /\ Returns(StatusReport(api_key, colabfold_available))

(* ---------------- the system ---------------- *)
Next ==
  \/ predict_structure
  \/ \E cfg \in MultimerSamples : predict_multimer(cfg)
  \/ Submit
  \/ StatusQuery
  \/ FetchPdb
  \/ FetchConfidence
  \/ Sleep
  \/ get_status

Spec == Init /\ [][Next]_vars

\* one call of predict_multimer, on every config within the bounds, and its
\* submission
NextChains ==
  \/ pc = "idle" /\ \E cfg \in MultimerConfigs : predict_multimer(cfg)
  \/ Submit

SpecChains == Init /\ [][NextChains]_vars

\* the operations on a transport that takes time to answer
SpecTime == InitTimed /\ [][Next]_vars

\* every transport call and every wait that was started comes to an end
Fairness ==
  /\ WF_vars(Submit)
  /\ WF_vars(StatusQuery)
  /\ WF_vars(FetchPdb)
  /\ WF_vars(FetchConfidence)
  /\ WF_vars(Sleep)

\* the calls of predict_structure and the steps of the submission and of the
\* poller they lead to
NextStructure ==
  \/ predict_structure
  \/ Submit
  \/ StatusQuery
  \/ FetchPdb
  \/ FetchConfidence
  \/ Sleep

SpecLive == InitQuick /\ [][NextStructure]_vars /\ Fairness

(* ======================= properties ======================= *)
NetCalls == nSubmit + nStatus + nFetch
Prediction == op \in {"predict_structure", "predict_multimer"}
Polled == nStatus > 0

\* the request of a prediction names what the operation reads unconditionally
HasRequiredKey ==
  \/ op = "predict_structure" /\ "sequence" \in DOMAIN config
  \/ op = "predict_multimer" /\ "sequences" \in DOMAIN config

\* C1: whatever the config and whatever the transport does, a prediction
\* operation that has ended returned a record whose status is 'success' or
\* 'failed'; no exception left it.
C1_NoExceptionEscapes ==
  (pc = "done" /\ Prediction) =>
     /\ raised = NoValue
     /\ result # NoValue
     /\ result.status \in {"success", "failed"}

\* C2: without a credential (api_key None or ''), predict_structure in 'api'
\* mode and predict_multimer hand nothing to the transport, at any moment of
\* the call, and a request that names its sequence(s) gets the 'failed' record
\* with the missing-credential message of its operation.
C2_MissingCredential ==
  (~Truthy(api_key) /\ Prediction) =>
     /\ pc = "done"
     /\ NetCalls = 0 /\ lastReq = NoValue /\ submitResp = NoValue
     /\ (op = "predict_structure" /\ HasRequiredKey
           /\ Get(config, "mode", "api") = "api") =>
          /\ raised = NoValue
          /\ result.status = "failed"
          /\ result.error =
               <<"AlphaFold API key not set. Set ALPHAFOLD_API_KEY environment variable.">>
          /\ result.message = <<"API mode requires authentication">>
     /\ (op = "predict_multimer" /\ HasRequiredKey) =>
          /\ raised = NoValue
          /\ result.status = "failed"
          /\ result.error = <<"Multimer prediction requires API access">>

C2_Witness ==
  /\ pc = "done" /\ op = "predict_multimer" /\ api_key = ""
  /\ HasRequiredKey
  /\ result # NoValue /\ result.status = "failed"
  /\ NetCalls = 0

\* C3: once the submission was answered with a status code other than 202, the
\* operation is over: its result is 'failed', the error names that very code, and
\* the one request of the call is the submission (no status query, no fetch).
C3_RejectedSubmission ==
  ("code" \in DOMAIN submitResp /\ submitResp.code # 202) =>
     /\ pc = "done"
     /\ raised = NoValue
     /\ result.status = "failed"
     /\ Len(result.error) = 2 /\ result.error[2] = submitResp.code
     /\ nSubmit = 1 /\ nStatus = 0 /\ nFetch = 0 /\ nSleep = 0
     /\ lastReq.method = "POST"

C3_Witness ==
  /\ pc = "done" /\ op = "predict_multimer"
  /\ "code" \in DOMAIN submitResp /\ submitResp.code = 500
  /\ result.error = <<"Multimer API request failed: ", 500>>

\* the run so far: only non-terminal status answers, then possibly 'completed',
\* and no retrieval failed
CleanRun ==
  /\ hist \subseteq {"nonterminal", "completed"}
  /\ nFetchFail = 0

\* C4: when the first n status queries (0 <= n < 60) answered with a
\* non-terminal status, query n+1 answered 'completed' with both URLs and both
\* retrievals worked, the call made n+1 status queries, then 2 retrievals, and
\* returned 'success' with the job id, the structure text and the confidence
\* fields (with their defaults) in one record.
C4_CompletedAfterN ==
  (CleanRun /\ "completed" \in hist /\ ValidCompletion(job_data)) =>
     /\ attempt < 60
     /\ nStatus = attempt + 1
     /\ nSleep = attempt
     /\ pc \in {"fetch_pdb", "fetch_conf", "done"}
     /\ pc = "fetch_pdb" => nFetch = 0
     /\ pc = "fetch_conf" => nFetch = 1
     /\ pc = "done" =>
          /\ nFetch = 2
          /\ lastReq.url = <<job_data["confidenceUrl"]>>
          /\ raised = NoValue
          /\ result.status = "success"
          /\ result.job_id = job_id
          /\ result.pdb_data = pdb_data /\ pdb_data \in PdbTexts
          /\ result.confidence_scores =
               (IF "plddt" \in DOMAIN confidence_data
                THEN confidence_data["plddt"] ELSE << >>)
          /\ result.mean_plddt =
               (IF "meanPlddt" \in DOMAIN confidence_data
                THEN confidence_data["meanPlddt"] ELSE 0)
          /\ result.pae_data =
               (IF "pae" \in DOMAIN confidence_data
                THEN confidence_data["pae"] ELSE None)

C4_Witness ==
  /\ pc = "done" /\ CleanRun /\ hist = {"nonterminal", "completed"}
  /\ nStatus = 60 /\ nFetch = 2
  /\ result.status = "success" /\ result.job_id = "job-1"
  /\ result.mean_plddt = 80

\* C5: no call makes more than 60 status queries, and a call whose status
\* queries all answered with a non-terminal status makes exactly 60 of them and
\* then returns 'failed' with the timeout message and the job id.
C5_AlwaysPending ==
  /\ nStatus <= 60
  /\ (pc = "done" /\ hist = {"nonterminal"}) =>
       /\ nStatus = 60
       /\ nFetch = 0
       /\ raised = NoValue
       /\ result.status = "failed"
       /\ result.error = <<"Job timeout after 10 minutes">>
       /\ result.job_id = job_id

C5_Witness ==
  /\ pc = "done" /\ hist = {"nonterminal"} /\ nStatus = 60
  /\ result.status = "failed" /\ result.job_id = "job-1"

\* C6: a 'failed' status answer at attempt k ends the call there: the state
\* that follows it is the returned one, the last request of the call is that
\* k-th status query (no fetch after it), no wait was added, and the result is
\* 'failed' with the job id that was polled.
C6_FailedEndsPolling ==
  "failed" \in hist =>
     /\ pc = "done"
     /\ raised = NoValue
     /\ nStatus = attempt + 1
     /\ nSleep + nNon200 = attempt
     /\ lastReq.method = "GET"
     /\ lastReq.url = <<api_base_url, "/jobs/", job_id>>
     /\ result.status = "failed"
     /\ result.error = <<"Prediction job failed">>
     /\ result.job_id = job_id

C6_Witness ==
  /\ "failed" \in hist /\ pc = "done"
  /\ nStatus = 60 /\ result.job_id = "job-1"

\* C7: a status query that raises does not end the loop and uses up one
\* attempt like a non-terminal answer does: in a call whose status queries
\* raised or answered with a non-terminal status, every query so far took one
\* index of the loop, the call is not over before the 60th query, and it ends
\* in the timeout failure after exactly 60 status queries.
C7_ErrorsShareBudget ==
  ("error" \in hist /\ hist \subseteq {"error", "nonterminal"}) =>
     /\ nStatus = attempt + (IF pc = "poll" THEN 0 ELSE 1)
     /\ pc \in {"poll", "sleep", "done"}
     /\ pc = "done" =>
          /\ nStatus = 60
          /\ nSleep = 60
          /\ raised = NoValue
          /\ result.status = "failed"
          /\ result.error = <<"Job timeout after 10 minutes">>
          /\ result.job_id = job_id

C7_Witness ==
  /\ pc = "done" /\ hist = {"error", "nonterminal"}
  /\ nStatus = 60 /\ result.error = <<"Job timeout after 10 minutes">>

\* st[1] + ... + st[i]
RECURSIVE SumTo(_, _)
SumTo(st, i) == IF i = 0 THEN 0 ELSE st[i] + SumTo(st, i - 1)

\* chains is sequence 1 st[1] times, then sequence 2 st[2] times, ...
Expanded(chains, seqs, st) ==
  /\ Len(chains) = SumTo(st, Len(seqs))
  /\ \A i \in 1..Len(seqs) : \A j \in 1..st[i] :
        chains[SumTo(st, i - 1) + j] = [sequence |-> seqs[i]]

\* C8: for a sequences list and a stoichiometry list of equal length, the chain
\* list of the submission payload is each sequence repeated by its copy number,
\* in input order; without a stoichiometry it is each sequence once.
C8_ChainExpansion ==
  (/\ op = "predict_multimer" /\ Truthy(api_key)
   /\ "sequences" \in DOMAIN config
   /\ "stoichiometry" \in DOMAIN config =>
         Len(config["stoichiometry"]) = Len(config["sequences"])) =>
     /\ payload # NoValue
     /\ pc = "submit" \/ (nSubmit = 1 /\ lastReq.json = payload)
     /\ IF "stoichiometry" \in DOMAIN config
        THEN Expanded(payload.sequences, config["sequences"], config["stoichiometry"])
        ELSE payload.sequences =
               [i \in 1..Len(config["sequences"]) |-> [sequence |-> config["sequences"][i]]]

C8_Witness ==
  /\ op = "predict_multimer" /\ nSubmit = 1
  /\ config = [sequences |-> <<"A", "B">>, stoichiometry |-> <<2, 1>>]
  /\ lastReq.json.sequences =
       << [sequence |-> "A"], [sequence |-> "A"], [sequence |-> "B"] >>

\* C9: predict_structure with a mode other than 'api' and 'local' hands nothing
\* to the transport, with or without a credential, and a request that names its
\* sequence gets the 'failed' record whose error names the mode.
C9_UnknownMode ==
  (/\ op = "predict_structure"
   /\ Get(config, "mode", "api") \notin {"api", "local"}) =>
     /\ pc = "done"
     /\ NetCalls = 0 /\ lastReq = NoValue
     /\ HasRequiredKey =>
          /\ raised = NoValue
          /\ result = [error |-> <<"Unknown prediction mode: ", config["mode"]>>,
                       status |-> "failed"]

C9_Witness ==
  /\ pc = "done" /\ op = "predict_structure" /\ Truthy(api_key)
  /\ HasRequiredKey /\ Get(config, "mode", "api") = "batch"
  /\ result # NoValue /\ result.status = "failed"

\* C10: get_status hands nothing to the transport and leaves api_key,
\* api_base_url and colabfold_available as they are (no step of any operation
\* changes them, so they are the values of construction); its api_available is
\* true exactly when api_key is neither None nor '', and its
\* colabfold_available is the bridge's flag.
C10_StatusReport ==
  /\ [](op = "get_status" =>
          /\ pc = "done" /\ raised = NoValue
          /\ NetCalls = 0 /\ lastReq = NoValue
          /\ result.api_available = (api_key # None /\ api_key # "")
          /\ result.colabfold_available = colabfold_available)
  /\ [][bridge' = bridge]_vars

C10_Witness ==
  /\ op = "get_status" /\ pc = "done"
  /\ api_key = "" /\ result.api_available = FALSE
  /\ colabfold_available /\ result.colabfold_available

\* the three shapes of a request, told apart by method and URL
IsSubmission(r) == r # NoValue /\ r.method = "POST"
IsStatusQuery(r) == r # NoValue /\ r.method = "GET" /\ Len(r.url) = 3
IsArtifactFetch(r) == r # NoValue /\ r.method = "GET" /\ Len(r.url) = 1

\* C11 as stated: every request of a prediction call (submission, status
\* query, structure-file fetch, confidence-data fetch) carries the bearer-token
\* authorization header built from the credential.
C11_AllRequestsAuthorized ==
  lastReq # NoValue =>
     /\ lastReq.headers # NoValue
     /\ lastReq.headers.Authorization = <<"Bearer ", api_key>>

\* C11 amended: the submission and every status query carry the bearer-token
\* authorization header built from the credential; the two artifact fetches
\* are sent without any header.
C11_ApiRequestsAuthorized ==
  lastReq # NoValue =>
     IF IsArtifactFetch(lastReq)
     THEN lastReq.headers = NoValue
     ELSE /\ IsSubmission(lastReq) \/ IsStatusQuery(lastReq)
          /\ Truthy(api_key)
          /\ lastReq.headers # NoValue
          /\ lastReq.headers.Authorization = <<"Bearer ", api_key>>

C11_Witness ==
  /\ IsStatusQuery(lastReq) /\ nFetch = 2 /\ nSubmit = 1
  /\ lastReq.headers.Authorization = <<"Bearer ", "envkey">>

\* the call went the one way that ends in success
SuccessPath ==
  /\ "code" \in DOMAIN submitResp /\ submitResp.code = 202
  /\ lastStatus = "completed"
  /\ confidence_data # NoValue

\* C12: a prediction call that returned has status 'success' exactly when its
\* submission was answered 202, the status query of its last attempt answered
\* 'completed' and the two fetches made after that answer worked; every other
\* call that returned (missing credential, rejected or errored submission,
\* 'failed' status, exhausted budget, unknown mode, local mode) has 'failed'.
C12_SuccessOnlyPath ==
  (pc = "done" /\ Prediction /\ raised = NoValue) =>
     /\ result.status \in {"success", "failed"}
     /\ result.status = "success" <=> SuccessPath
     /\ result.status = "success" =>
          /\ Truthy(api_key)
          /\ nSubmit = 1
          /\ "completed" \in hist
          /\ ValidCompletion(job_data)
          /\ nFetch >= 2
          /\ pdb_data \in PdbTexts
          /\ IsArtifactFetch(lastReq)
          /\ lastReq.url = <<job_data["confidenceUrl"]>>

C12_Witness ==
  /\ pc = "done" /\ op = "predict_multimer"
  /\ result # NoValue /\ result.status = "success"
  /\ nFetchFail = 1 /\ "non200" \in hist

\* predict_structure was called in 'local' mode
LocalCall ==
  /\ op = "predict_structure"
  /\ Get(config, "mode", "api") = "local"

\* C13 as stated: 'local' mode returns the 'failed' record with one fixed
\* not-implemented message whatever the bridge's state, and calls no transport.
C13_OneFixedMessage ==
  (LocalCall /\ HasRequiredKey) =>
     /\ pc = "done" /\ NetCalls = 0
     /\ result.status = "failed"
     /\ result.error = <<"Local ColabFold prediction not yet implemented">>

\* C13 amended: 'local' mode calls no transport and returns a 'failed' record,
\* with or without a credential; its message is the not-implemented one when
\* the local tool was found at construction and 'ColabFold not installed' when
\* it was not.
C13_LocalAlwaysFails ==
  LocalCall =>
     /\ pc = "done"
     /\ NetCalls = 0 /\ lastReq = NoValue
     /\ HasRequiredKey =>
          /\ raised = NoValue
          /\ result.status = "failed"
          /\ result.error =
               (IF colabfold_available
                THEN <<"Local ColabFold prediction not yet implemented">>
                ELSE <<"ColabFold not installed">>)

C13_Witness ==
  /\ LocalCall /\ HasRequiredKey /\ pc = "done"
  /\ ~colabfold_available /\ Truthy(api_key)
  /\ result.error = <<"ColabFold not installed">>

\* C14 as stated: once a status query has returned 'completed' the call makes
\* no further status query and no wait; it is downloading or it has returned,
\* and a download that fails makes it return 'failed' at once.
C14_CompletedLeavesLoop ==
  "completed" \in hist =>
     /\ pc \in {"fetch_pdb", "fetch_conf", "done"}
     /\ lastStatus = "completed"
     /\ nFetchFail > 0 => (pc = "done" /\ result.status = "failed")

\* C15 as stated: between any two status queries of one poll call there is one
\* wait of the poll interval, so the queries never outnumber the waits by more
\* than the one query in progress.
C15_WaitBetweenQueries == nStatus <= nSleep + 1

\* the status answers the else branch of the loop body takes besides 'pending':
\* an unrecognized word, the empty string, no status at all
UnknownStatusDicts == {[status |-> "queued"], [status |-> ""], EmptyDict}

PendingBody == JsonDict([status |-> "pending"])

\* C16: a status answer whose status is unrecognized, empty or missing is
\* handled exactly as 'pending': after it the call is waiting, has returned
\* nothing and has spent the attempt; and a step of the poller is the step it
\* takes on 'pending' exactly when it is the step it takes on such an answer,
\* so that putting one for the other changes no query, no wait and no result.
C16_UnknownLikePending ==
  /\ [](lastStatus \in {"queued", "", None} =>
          /\ pc = "sleep"
          /\ result = NoValue /\ raised = NoValue
          /\ nStatus = nSleep + nNon200 + 1
          /\ nFetch = 0 => nStatus = attempt + 1)
  /\ [][LET onPending == StatusQueryEffect(OK, PendingBody)
        IN  \A d \in UnknownStatusDicts :
               StatusQueryEffect(OK, JsonDict(d)) <=> onPending]_vars

C16_Witness ==
  /\ lastStatus = None /\ pc = "sleep"
  /\ attempt = 1 /\ nSleep = 1 /\ nStatus = 2

\* the submission of this call failed: the transport raised, or the service
\* answered with a code other than 202
SubmissionFailed ==
  \/ "raised" \in DOMAIN submitResp
  \/ "code" \in DOMAIN submitResp /\ submitResp.code # ACCEPTED

\* C17: a call posts its job at most once, and a submission that raised or was
\* rejected ends the call at once with a 'failed' record: no second
\* submission, no status query.
C17_SubmitOnce ==
  /\ nSubmit <= 1
  /\ SubmissionFailed =>
       /\ pc = "done" /\ raised = NoValue
       /\ result.status = "failed"
       /\ nSubmit = 1 /\ nStatus = 0 /\ nFetch = 0 /\ nSleep = 0
       /\ IsSubmission(lastReq)
       /\ "raised" \in DOMAIN submitResp =>
            result.error = <<Str(submitResp.raised)>>

C17_Witness ==
  /\ pc = "done" /\ op = "predict_structure"
  /\ "raised" \in DOMAIN submitResp
  /\ result.error = <<"read timed out">> /\ nSubmit = 1

\* C18: every prediction call that has started returns, when each transport
\* call and each wait comes to an end.
C18_CallReturns == (Prediction /\ pc # "done") ~> (pc = "done")

C18_Witness ==
  /\ pc = "done" /\ Prediction
  /\ result = TimeoutResult(job_id)
  /\ "error" \in hist /\ nStatus = max_polls

\* C19 as stated: the time from the first status query of a poll call to its
\* return is at most max_polls * poll_interval = 600.
C19_TotalTimeBound == Polled => elapsed <= max_polls * poll_interval

\* C20: a download is only made in an attempt whose status query was answered
\* 'completed'; the structure file is asked for first, from the URL of that
\* answer, and the confidence data only once the structure file has arrived.
C20_FetchOrder ==
  /\ [](pc \in {"fetch_pdb", "fetch_conf"} =>
          /\ lastStatus = "completed"
          /\ job_data # NoValue /\ Get(job_data, "status", None) = "completed"
          /\ nStatus = attempt + 1
          /\ pc = "fetch_pdb" => (IsStatusQuery(lastReq) /\ pdb_data = NoValue)
          /\ pc = "fetch_conf" =>
               /\ lastReq = ArtifactRequest(Get(job_data, "pdbUrl", None))
               /\ pdb_data \in PdbTexts)
  /\ [][nFetch' = nFetch + 1 =>
          \/ /\ pc = "fetch_pdb"
             /\ lastReq' = ArtifactRequest(Get(job_data, "pdbUrl", None))
          \/ /\ pc = "fetch_conf"
             /\ lastReq' = ArtifactRequest(Get(job_data, "confidenceUrl", None))]_vars

C20_Witness ==
  /\ pc = "fetch_conf" /\ nFetchFail = 1 /\ nFetch = 2
  /\ lastReq = ArtifactRequest("https://files/pdb")

====
